---- MODULE Spec2Model ----
(***************************************************************************)
(* A model of the WeightedHistogram of weightedhistogram.go: a bounded    *)
(* sequence of bins (Value, Count), kept sorted by Value, into which Add  *)
(* inserts samples, scaling the other bins down and merging the two       *)
(* closest bins when there are more than Maxbins of them; and the queries *)
(* Quantile, CDF, Mean, Variance and Count over the bins.                 *)
(*                                                                         *)
(* float64 values are modelled as exact rationals [n |-> Int, d |-> Nat]  *)
(* in lowest terms.  d = 0 stands for the values float64 has beyond the    *)
(* finite rationals: n > 0 for a value above every sample gap (+Inf, and  *)
(* the 1e99 of trim), n < 0 for -Inf, n = 0 for NaN.                       *)
(* Sequences are 1-based: Go's Bins[i] is Bins[i+1] here, and an index 0  *)
(* stands for "no index".                                                  *)
(***************************************************************************)
EXTENDS Integers, Sequences, FiniteSets, TLC

VARIABLES
    Bins,       \* h.Bins: sequence of [Value, Count]
    Maxbins,    \* h.Maxbins
    Total,      \* h.Total
    Alpha,      \* h.Alpha
    xs,         \* the samples given to Add so far, in order
    branches,   \* the branch each of those Adds took: "match", "insert", "append"
    last,       \* what the last Add did: branch, index, bins before, bins before trim
    ret,        \* the last query since the last Add: op, arg, val, idx
    panicked    \* an Add panicked in trim: h.Bins[minDeltaIndex-1] with minDeltaIndex 0

vars == <<Bins, Maxbins, Total, Alpha, xs, branches, last, ret, panicked>>

(***************************************************************************)
(* Bounds of the model.                                                    *)
(***************************************************************************)
MaxAdds == 3        \* Add is called at most MaxAdds times
MaxSample == 2      \* samples are the integers -1..MaxSample
MaxMaxbins == 2     \* histograms are constructed with n in 1..MaxMaxbins
AlphaDen == 2       \* alpha is 1/AlphaDen or 1
QDen == 2           \* q is -1/QDen, 0, 1/QDen, 1 or 1 + 1/QDen

(***************************************************************************)
(* float64 arithmetic, exact.                                              *)
(***************************************************************************)
Abs(a) == IF a < 0 THEN 0 - a ELSE a

Sign(a) == IF a < 0 THEN 0 - 1 ELSE IF a > 0 THEN 1 ELSE 0

RECURSIVE GCD(_, _)
GCD(a, b) == IF b = 0 THEN a ELSE GCD(b, a % b)

Rat(n, d) ==
    IF d = 0 THEN [n |-> Sign(n), d |-> 0]
    ELSE LET g == GCD(Abs(n), Abs(d))
         IN  [n |-> (Sign(d) * n) \div g, d |-> Abs(d) \div g]

Zero == Rat(0, 1)

One == Rat(1, 1)

NaN == Rat(0, 0)

IsNaN(a) == a.d = 0 /\ a.n = 0

RAdd(a, b) ==
    IF a.d = 0 \/ b.d = 0
    THEN IF IsNaN(a) \/ IsNaN(b) \/ (a.d = 0 /\ b.d = 0 /\ a.n # b.n) THEN NaN
         ELSE IF a.d = 0 THEN a ELSE b
    ELSE LET g == GCD(a.d, b.d)
         IN  Rat(a.n * (b.d \div g) + b.n * (a.d \div g), (a.d \div g) * b.d)

RNeg(a) == [n |-> 0 - a.n, d |-> a.d]

RSub(a, b) == RAdd(a, RNeg(b))

RMul(a, b) ==
    IF a.d = 0 \/ b.d = 0
    THEN Rat(a.n * b.n, 0)
    ELSE IF a.n = 0 \/ b.n = 0 THEN Rat(0, 1)
    ELSE LET g1 == GCD(Abs(a.n), b.d)
             g2 == GCD(Abs(b.n), a.d)
         IN  Rat((a.n \div g1) * (b.n \div g2), (a.d \div g2) * (b.d \div g1))

RDiv(a, b) ==
    IF a.d = 0 \/ b.d = 0
    THEN IF IsNaN(a) \/ IsNaN(b) \/ (a.d = 0 /\ b.d = 0) THEN NaN
         ELSE IF a.d = 0 THEN Rat(a.n * (IF b.n < 0 THEN 0 - 1 ELSE 1), 0)
         ELSE Rat(0, 1)
    ELSE IF b.n = 0 THEN Rat(a.n, 0)
    ELSE RMul(a, Rat(b.d, b.n))

\* a < b; false when either is NaN, as in float64
RLt(a, b) ==
    /\ ~IsNaN(a)
    /\ ~IsNaN(b)
    /\ IF a.d = 0 /\ b.d = 0 THEN a.n < b.n
       ELSE IF a.d = 0 THEN a.n < 0
       ELSE IF b.d = 0 THEN b.n > 0
       ELSE LET g == GCD(a.d, b.d)
            IN  a.n * (b.d \div g) < b.n * (a.d \div g)

REq(a, b) == ~IsNaN(a) /\ ~IsNaN(b) /\ a = b

RLe(a, b) == RLt(a, b) \/ REq(a, b)

(***************************************************************************)
(* The inputs.                                                             *)
(***************************************************************************)
Samples == {Rat(k, 1) : k \in (0 - 1)..MaxSample}

Alphas == {Rat(1, AlphaDen), One}

Quantiles == {Rat(0 - 1, QDen), Zero, Rat(1, QDen), One, Rat(QDen + 1, QDen)}

Bin(v, c) == [Value |-> v, Count |-> c]

RECURSIVE SumCounts(_)
SumCounts(bins) ==
    IF bins = <<>> THEN Zero
    ELSE RAdd(SumCounts(SubSeq(bins, 1, Len(bins) - 1)), bins[Len(bins)].Count)

(***************************************************************************)
(* ewma and scaleDown.                                                     *)
(***************************************************************************)
ewma(existingVal, newVal, alpha) ==
    RAdd(RMul(newVal, RSub(One, alpha)), RMul(existingVal, alpha))

\* scaleDown without its exception: the bin at except is scaled too
scaleDownAll(bins, except, alpha) ==
    [i \in 1..Len(bins) |->
        [bins[i] EXCEPT !.Count = ewma(bins[i].Count, Zero, alpha)]]

scaleDown(bins, except, alpha) ==
    [i \in 1..Len(bins) |->
        IF i # except
        THEN [bins[i] EXCEPT !.Count = ewma(bins[i].Count, Zero, alpha)]
        ELSE bins[i]]

(***************************************************************************)
(* trim: the total, then the merges.                                       *)
(***************************************************************************)
\* minDelta starting from 0: no difference is below it
MinDeltaInitZero == Rat(0, 1)

MinDeltaInit == Rat(1, 0)

\* trim's inner loop taking the last of the pairs with the least difference
RECURSIVE MinDeltaScanLast(_, _, _, _)
MinDeltaScanLast(bins, i, minDelta, minDeltaIndex) ==
    IF i > Len(bins) THEN minDeltaIndex
    ELSE IF i = 1 THEN MinDeltaScanLast(bins, i + 1, minDelta, minDeltaIndex)
    ELSE LET delta == RSub(bins[i].Value, bins[i - 1].Value)
         IN  IF RLe(delta, minDelta)
             THEN MinDeltaScanLast(bins, i + 1, delta, i)
             ELSE MinDeltaScanLast(bins, i + 1, minDelta, minDeltaIndex)

\* the scan of trim's inner loop from index i on: the index of the second bin
\* of the first pair with the least difference of values (1 when no pair has a
\* difference below minDelta; Go's minDeltaIndex 0)
RECURSIVE MinDeltaScan(_, _, _, _)
MinDeltaScan(bins, i, minDelta, minDeltaIndex) ==
    IF i > Len(bins) THEN minDeltaIndex
    ELSE IF i = 1 THEN MinDeltaScan(bins, i + 1, minDelta, minDeltaIndex)
    ELSE LET delta == RSub(bins[i].Value, bins[i - 1].Value)
         IN  IF RLt(delta, minDelta)
             THEN MinDeltaScan(bins, i + 1, delta, i)
             ELSE MinDeltaScan(bins, i + 1, minDelta, minDeltaIndex)

MinDeltaIndex(bins) == MinDeltaScan(bins, 1, MinDeltaInit, 1)

\* the merged bin with the plain average of the two values
MergedBinUnweighted(a, b) ==
    Bin(RDiv(RAdd(a.Value, b.Value), Rat(2, 1)), RAdd(a.Count, b.Count))

\* the merged bin with the count of the second bin alone
MergedBinDropsCount(a, b) ==
    LET totalCount == RAdd(a.Count, b.Count)
    IN  Bin(RDiv(RAdd(RMul(a.Value, a.Count), RMul(b.Value, b.Count)), totalCount),
            b.Count)

MergedBin(a, b) ==
    LET totalCount == RAdd(a.Count, b.Count)
    IN  Bin(RDiv(RAdd(RMul(a.Value, a.Count), RMul(b.Value, b.Count)), totalCount),
            totalCount)

\* a pass that keeps bin k-1 as it is and drops bin k
MergeAtDropsSecond(bins, k) ==
    SubSeq(bins, 1, k - 1) \o SubSeq(bins, k + 1, Len(bins))

\* one pass of trim's outer loop; the pair merged is (k-1, k)
MergeAt(bins, k) ==
    SubSeq(bins, 1, k - 2) \o <<MergedBin(bins[k - 1], bins[k])>>
        \o SubSeq(bins, k + 1, Len(bins))

\* the merge of a pass indexes bins[k-1]: with k = 1 (Go's minDeltaIndex 0,
\* no pair found) that is h.Bins[-1], and trim panics
MergePanics(bins) == MinDeltaIndex(bins) < 2

\* trim's loop stopping one bin early
RECURSIVE trimLoopOffByOne(_, _)
trimLoopOffByOne(bins, maxbins) ==
    IF Len(bins) > maxbins + 1 /\ ~MergePanics(bins)
    THEN trimLoopOffByOne(MergeAt(bins, MinDeltaIndex(bins)), maxbins)
    ELSE bins

\* the bins trim's loop leaves: at most maxbins of them, or the bins at the
\* pass that panicked
RECURSIVE trimLoop(_, _)
trimLoop(bins, maxbins) ==
    IF Len(bins) > maxbins /\ ~MergePanics(bins)
    THEN trimLoop(MergeAt(bins, MinDeltaIndex(bins)), maxbins)
    ELSE bins

\* the number of merges trim's loop makes
RECURSIVE trimPasses(_, _)
trimPasses(bins, maxbins) ==
    IF Len(bins) > maxbins /\ ~MergePanics(bins)
    THEN 1 + trimPasses(MergeAt(bins, MinDeltaIndex(bins)), maxbins)
    ELSE 0

\* trim's loop ends in a panic
trimPanics(bins, maxbins) ==
    LET left == trimLoop(bins, maxbins)
    IN  Len(left) > maxbins /\ MergePanics(left)

trimTotal(bins) == SumCounts(bins)

(***************************************************************************)
(* Add.                                                                    *)
(***************************************************************************)
\* the scan of Add's loop from index i on: the first index whose bin's value is
\* n or more than n, 0 when the loop ends without one
RECURSIVE AddScan(_, _, _)
AddScan(bins, i, n) ==
    IF i > Len(bins) THEN 0
    ELSE IF REq(bins[i].Value, n) \/ RLt(n, bins[i].Value) THEN i
    ELSE AddScan(bins, i + 1, n)

AddBranch(bins, n) ==
    LET i == AddScan(bins, 1, n)
    IN  IF i = 0 THEN "append"
        ELSE IF REq(bins[i].Value, n) THEN "match" ELSE "insert"

\* Add's body with the new bin spliced in after the larger bin, not before it
AddBodySplicesAfter(bins, n) ==
    LET i == AddScan(bins, 1, n)
    IN  CASE AddBranch(bins, n) = "match" ->
                [bins EXCEPT ![i].Count = RAdd(@, One)]
          [] AddBranch(bins, n) = "insert" ->
                SubSeq(bins, 1, i) \o <<Bin(n, One)>> \o SubSeq(bins, i + 1, Len(bins))
          [] OTHER -> Append(bins, Bin(n, One))

\* Add's body with the match branch leaving the Count as it was
AddBodyNoIncrement(bins, n) ==
    LET i == AddScan(bins, 1, n)
    IN  CASE AddBranch(bins, n) = "match" -> bins
          [] AddBranch(bins, n) = "insert" ->
                SubSeq(bins, 1, i - 1) \o <<Bin(n, One)>> \o SubSeq(bins, i, Len(bins))
          [] OTHER -> Append(bins, Bin(n, One))

\* the bins when Add's body returns, before the deferred calls run
AddBody(bins, n) ==
    LET i == AddScan(bins, 1, n)
    IN  CASE AddBranch(bins, n) = "match" ->
                [bins EXCEPT ![i].Count = RAdd(@, One)]
          [] AddBranch(bins, n) = "insert" ->
                SubSeq(bins, 1, i - 1) \o <<Bin(n, One)>> \o SubSeq(bins, i, Len(bins))
          [] OTHER -> Append(bins, Bin(n, One))

\* the deferred scaleDown(i) of the match and insert branches; the append
\* branch defers none
AddDeferredScale(bins, n, alpha) ==
    IF AddBranch(bins, n) = "append" THEN AddBody(bins, n)
    ELSE scaleDown(AddBody(bins, n), AddScan(bins, 1, n), alpha)

NoLast == [branch |-> "none", idx |-> 0, old |-> <<>>, pre |-> <<>>]

NoRet == [op |-> "none", arg |-> Zero, val |-> Zero, idx |-> 0]

Add(n) ==
    /\ ~panicked
    /\ Len(xs) < MaxAdds
    /\ LET pre == AddDeferredScale(Bins, n, Alpha)
       IN  /\ Total' = trimTotal(pre)
           /\ Bins' = trimLoop(pre, Maxbins)
           /\ last' = [branch |-> AddBranch(Bins, n),
                       idx |-> IF AddBranch(Bins, n) = "append"
                               THEN Len(Bins) + 1 ELSE AddScan(Bins, 1, n),
                       old |-> Bins,
                       pre |-> pre]
           /\ panicked' = trimPanics(pre, Maxbins)
    /\ xs' = Append(xs, n)
    /\ branches' = Append(branches, AddBranch(Bins, n))
    /\ ret' = NoRet
    /\ UNCHANGED <<Maxbins, Alpha>>

(***************************************************************************)
(* The queries.                                                            *)
(***************************************************************************)
NotFound == Rat(0 - 1, 1)

\* Quantile's loop returning only when count falls below 0
RECURSIVE QuantileScanStrict(_, _, _)
QuantileScanStrict(bins, i, count) ==
    IF i > Len(bins) THEN 0
    ELSE LET c == RSub(count, bins[i].Count)
         IN  IF RLt(c, Zero) THEN i ELSE QuantileScanStrict(bins, i + 1, c)

\* the scan of Quantile's loop from index i on, count being what is left of
\* q * Total: the index of the bin whose value is returned, 0 when the loop
\* ends and -1 is returned
RECURSIVE QuantileScan(_, _, _)
QuantileScan(bins, i, count) ==
    IF i > Len(bins) THEN 0
    ELSE LET c == RSub(count, bins[i].Count)
         IN  IF RLe(c, Zero) THEN i ELSE QuantileScan(bins, i + 1, c)

\* Quantile starting its count from q, not from q * Total
QuantileIndexNoTotal(bins, total, q) == QuantileScan(bins, 1, q)

QuantileIndex(bins, total, q) == QuantileScan(bins, 1, RMul(q, total))

Quantile(bins, total, q) ==
    LET i == QuantileIndex(bins, total, q)
    IN  IF i = 0 THEN NotFound ELSE bins[i].Value

\* CDF counting only the bins below x
RECURSIVE CDFCountStrict(_, _)
CDFCountStrict(bins, x) ==
    IF bins = <<>> THEN Zero
    ELSE LET b == bins[Len(bins)]
             rest == CDFCountStrict(SubSeq(bins, 1, Len(bins) - 1), x)
         IN  IF RLt(b.Value, x) THEN RAdd(rest, b.Count) ELSE rest

RECURSIVE CDFCount(_, _)
CDFCount(bins, x) ==
    IF bins = <<>> THEN Zero
    ELSE LET b == bins[Len(bins)]
             rest == CDFCount(SubSeq(bins, 1, Len(bins) - 1), x)
         IN  IF RLe(b.Value, x) THEN RAdd(rest, b.Count) ELSE rest

CDF(bins, total, x) == RDiv(CDFCount(bins, x), total)

RECURSIVE MeanSum(_)
MeanSum(bins) ==
    IF bins = <<>> THEN Zero
    ELSE RAdd(MeanSum(SubSeq(bins, 1, Len(bins) - 1)),
              RMul(bins[Len(bins)].Value, bins[Len(bins)].Count))

\* Mean without its guard for a Total of 0
MeanNoGuard(bins, total) == RDiv(MeanSum(bins), total)

Mean(bins, total) ==
    IF total = Zero THEN Zero ELSE RDiv(MeanSum(bins), total)

RECURSIVE VarianceSum(_, _)
VarianceSum(bins, mean) ==
    IF bins = <<>> THEN Zero
    ELSE LET b == bins[Len(bins)]
             dv == RSub(b.Value, mean)
         IN  RAdd(VarianceSum(SubSeq(bins, 1, Len(bins) - 1), mean),
                  RMul(RMul(b.Count, dv), dv))

Variance(bins, total) ==
    IF total = Zero THEN Zero
    ELSE RDiv(VarianceSum(bins, Mean(bins, total)), total)

Count(total) == total

\* the arguments CDF is called with: the samples, a value below them all and
\* the values of the bins
CDFArgs ==
    Samples \cup {Rat(0 - 2, 1)} \cup {Bins[i].Value : i \in 1..Len(Bins)}

\* a query that scales the bins down as it reads them
UnchangedButScaled ==
    /\ ~panicked
    /\ Bins' = scaleDown(Bins, 0, Alpha)
    /\ UNCHANGED <<Maxbins, Total, Alpha, xs, branches, last, panicked>>

Unchanged ==
    /\ ~panicked
    /\ UNCHANGED <<Bins, Maxbins, Total, Alpha, xs, branches, last, panicked>>

QuantileCall(q) ==
    /\ ret' = [op |-> "Quantile", arg |-> q, val |-> Quantile(Bins, Total, q),
               idx |-> QuantileIndex(Bins, Total, q)]
    /\ Unchanged

CDFCall(x) ==
    /\ ret' = [op |-> "CDF", arg |-> x, val |-> CDF(Bins, Total, x), idx |-> 0]
    /\ Unchanged

MeanCall ==
    /\ ret' = [op |-> "Mean", arg |-> Zero, val |-> Mean(Bins, Total), idx |-> 0]
    /\ Unchanged

VarianceCall ==
    /\ ret' = [op |-> "Variance", arg |-> Zero, val |-> Variance(Bins, Total), idx |-> 0]
    /\ Unchanged

CountCall ==
    /\ ret' = [op |-> "Count", arg |-> Zero, val |-> Count(Total), idx |-> 0]
    /\ Unchanged

(***************************************************************************)
(* NewWeightedHistogram(n, alpha).                                         *)
(***************************************************************************)
Init ==
    /\ Bins = <<>>
    /\ Maxbins \in 1..MaxMaxbins
    /\ Total = Zero
    /\ Alpha \in Alphas
    /\ xs = <<>>
    /\ branches = <<>>
    /\ last = NoLast
    /\ ret = NoRet
    /\ panicked = FALSE

\* NewWeightedHistogram checks neither n nor alpha: any int and any float64
AnyMaxbins == (0 - 1)..MaxMaxbins

AnyAlphas == Alphas \cup {Rat(0 - 1, AlphaDen), Zero, Rat(AlphaDen + 1, AlphaDen)}

InitAnyParams ==
    /\ Bins = <<>>
    /\ Maxbins \in AnyMaxbins
    /\ Total = Zero
    /\ Alpha \in AnyAlphas
    /\ xs = <<>>
    /\ branches = <<>>
    /\ last = NoLast
    /\ ret = NoRet
    /\ panicked = FALSE

Next ==
    \/ \E n \in Samples : Add(n)
    \/ \E q \in Quantiles : QuantileCall(q)
    \/ \E x \in CDFArgs : CDFCall(x)
    \/ MeanCall
    \/ VarianceCall
    \/ CountCall

Spec == Init /\ [][Next]_vars

SpecAnyParams == InitAnyParams /\ [][Next]_vars

(***************************************************************************)
(* What the last Add did, read from last.                                  *)
(***************************************************************************)
Added == last.branch # "none"

\* the indices, in the bins before trim, of the bins the last Add did not touch
Others == (1..Len(last.pre)) \ {last.idx}

\* the bin of last.pre at j as it was before the Add
OldBin(j) ==
    IF last.branch = "insert" /\ j > last.idx THEN last.old[j - 1] ELSE last.old[j]

Merged == Len(last.pre) > Maxbins

StrictlyIncreasing(bins) ==
    \A i \in 1..(Len(bins) - 1) : RLt(bins[i].Value, bins[i + 1].Value)

\* C1: after every Add the number of bins is at most Maxbins
C1_BinsWithinMaxbins == Len(Bins) <= Maxbins

\* an Add that made a new bin in a histogram that held Maxbins bins
C1_Witness ==
    /\ last.branch \in {"insert", "append"}
    /\ Len(last.old) = Maxbins
    /\ Len(last.pre) = Maxbins + 1
    /\ Len(Bins) = Maxbins

\* C2: after every Add the bins are strictly increasing by Value
C2_BinsStrictlyIncreasing == StrictlyIncreasing(Bins)

\* a merge left a weighted-average bin, not an integer, next to another bin
C2_Witness ==
    /\ Merged
    /\ Len(Bins) >= 2
    /\ \E i \in 1..Len(Bins) : Bins[i].Value.d > 1

\* C3: after every Add, Total is the sum of the Counts of the bins
C3_TotalIsSumOfCounts == Total = SumCounts(Bins)

\* an Add that scaled the other bins down and then merged two bins
C3_Witness ==
    /\ last.branch = "insert"
    /\ RLt(Alpha, One)
    /\ Merged
    /\ Len(Bins) >= 2
    /\ Total = SumCounts(Bins)

\* C4: when Add scales down (match or insert), every bin but the touched one
\* has its Count w replaced by w * (1 - Alpha)
C4_OthersScaledByOneMinusAlpha ==
    last.branch \in {"match", "insert"} =>
        \A j \in Others :
            last.pre[j].Count = RMul(OldBin(j).Count, RSub(One, Alpha))

\* C5: for Alpha < 1 every Add, whatever its branch, leaves every bin but the
\* touched one with a Count strictly smaller than before
C5_DecayOnEveryAdd ==
    (Added /\ RLt(Alpha, One)) =>
        \A j \in Others : RLt(last.pre[j].Count, OldBin(j).Count)

\* C6: the bin an Add touches is not scaled down by that Add: a matched bin of
\* Count w has Count w + 1 before trim, while for Alpha < 1 every other bin has
\* lost weight; a new bin has Count 1 before trim
C6_TouchedBinExempt ==
    /\ last.branch = "match" =>
        /\ last.pre[last.idx].Value = xs[Len(xs)]
        /\ last.pre[last.idx].Count = RAdd(last.old[last.idx].Count, One)
        /\ RLt(Alpha, One) =>
              \A j \in Others : RLt(last.pre[j].Count, OldBin(j).Count)
    /\ last.branch \in {"insert", "append"} =>
        last.pre[last.idx] = Bin(xs[Len(xs)], One)

\* an Add matched a bin whose Count had been scaled down, among other bins
C6_Witness ==
    /\ last.branch = "match"
    /\ RLt(Alpha, One)
    /\ Others # {}
    /\ last.old[last.idx].Count.d > 1

PrefixSum(bins, i) == SumCounts(SubSeq(bins, 1, i))

\* the value of the first bin whose prefix sum of Counts is q * total or more
RefQuantile(bins, total, q) ==
    LET hits == {i \in 1..Len(bins) : RLe(RMul(q, total), PrefixSum(bins, i))}
    IN  IF hits = {} THEN NotFound
        ELSE bins[CHOOSE i \in hits : \A k \in hits : i <= k].Value

InUnit(q) == RLe(Zero, q) /\ RLe(q, One)

\* C7: Quantile(q), q in [0,1], returns the Value of the first bin at which the
\* prefix sum of the Counts reaches q * Total
C7_QuantileIsFirstPrefixHit ==
    (ret.op = "Quantile" /\ InUnit(ret.arg)) =>
        ret.val = RefQuantile(Bins, Total, ret.arg)

\* Quantile returned a bin past the first, of bins with unequal Counts
C7_Witness ==
    /\ ret.op = "Quantile"
    /\ ret.arg = Rat(1, QDen)
    /\ ret.idx >= 2
    /\ Bins[1].Count # Bins[2].Count

\* C8: after an Add, Quantile(q), q in [0,1], returns from inside its loop the
\* Value of a bin of the store, and for q = 1 the largest Value
C8_QuantileFindsABin ==
    (ret.op = "Quantile" /\ InUnit(ret.arg) /\ xs # <<>>) =>
        /\ ret.idx \in 1..Len(Bins)
        /\ ret.val = Bins[ret.idx].Value
        /\ ret.arg = One => \A i \in 1..Len(Bins) : RLe(Bins[i].Value, ret.val)

\* Quantile(1) on bins that were scaled down and merged
C8_Witness ==
    /\ ret.op = "Quantile"
    /\ ret.arg = One
    /\ RLt(Alpha, One)
    /\ Merged
    /\ Len(Bins) >= 2
    /\ ret.val = Bins[Len(Bins)].Value

\* the sum of the Counts of the bins of Value x or less
RefCountUpTo(bins, x) ==
    LET UpTo(b) == RLe(b.Value, x)
    IN  SumCounts(SelectSeq(bins, UpTo))

\* C9: with Total > 0, CDF(x) is the sum of the Counts of the bins of Value
\* <= x over the sum of all Counts: it is in [0,1], non-decreasing in x, and 1
\* at the largest Value
C9_CDFIsWeightFraction ==
    (RLt(Zero, Total) /\ ret.op = "CDF") =>
        /\ ret.val = RDiv(RefCountUpTo(Bins, ret.arg), SumCounts(Bins))
        /\ InUnit(ret.val)
        /\ ret.arg = Bins[Len(Bins)].Value => ret.val = One
        /\ \A y \in CDFArgs :
              RLe(ret.arg, y) => RLe(ret.val, CDF(Bins, Total, y))

\* CDF at a Value between the smallest and the largest, strictly inside (0,1)
C9_Witness ==
    /\ ret.op = "CDF"
    /\ Len(Bins) >= 2
    /\ RLt(Zero, ret.val)
    /\ RLt(ret.val, One)
    /\ \E i \in 1..Len(Bins) : ret.arg = Bins[i].Value

\* the multiplier scaleDown applies to the Count of a bin
DecayMultiplier == ewma(One, Zero, Alpha)

RECURSIVE RecW(_)
RecW(k) == IF k = 1 THEN One ELSE RAdd(One, RMul(DecayMultiplier, RecW(k - 1)))

RECURSIVE RecV(_)
RecV(k) ==
    IF k = 1 THEN xs[1]
    ELSE RDiv(RAdd(xs[k], RMul(RMul(DecayMultiplier, RecW(k - 1)), RecV(k - 1))),
              RecW(k))

\* C10: with Maxbins = 1 and every sample differing from the Value of the bin
\* it meets, the single bin follows W1 = 1, V1 = x1, Wk = 1 + d*W(k-1),
\* Vk = (xk + d*W(k-1)*V(k-1)) / Wk
C10_SingleBinIsEwma ==
    (Maxbins = 1 /\ xs # <<>> /\ \A k \in 1..Len(branches) : branches[k] # "match") =>
        /\ Len(Bins) = 1
        /\ Bins[1].Count = RecW(Len(xs))
        /\ Bins[1].Value = RecV(Len(xs))

RAbs(a) == IF a.n < 0 THEN RNeg(a) ELSE a

\* the distance of Mean() from v
MeanDistance(bins, total, v) == RAbs(RSub(Mean(bins, total), v))

\* C11: an Add(v) on a histogram that holds a bin leaves |Mean() - v| no larger
\* than it was, and strictly smaller when it was not 0
C11_AddDrawsMeanToSample ==
    [][(xs' # xs /\ Bins # <<>>) =>
          LET v == xs'[Len(xs')]
              before == MeanDistance(Bins, Total, v)
              after == MeanDistance(Bins', Total', v)
          IN  /\ RLe(after, before)
              /\ before # Zero => RLt(after, before)]_vars

\* an Add of a sample the Mean differed from, that made a new bin, scaled the
\* others down and ended in a merge
C11_Witness ==
    /\ Merged
    /\ RLt(Alpha, One)
    /\ Len(last.old) >= 2
    /\ Mean(last.old, SumCounts(last.old)) # xs[Len(xs)]
    /\ Mean(Bins, Total) # xs[Len(xs)]
    /\ last.branch = "insert"

\* C12: before any Add, Mean() is 0, Variance() is 0, Count() is 0 and
\* Quantile(q) is -1, returned after its loop, for every q
C12_EmptyHistogramQueries ==
    xs = <<>> =>
        /\ ret.op \in {"Mean", "Variance", "Count"} => ret.val = Zero
        /\ ret.op = "Quantile" => (ret.val = NotFound /\ ret.idx = 0)
        /\ Mean(Bins, Total) = Zero
        /\ Variance(Bins, Total) = Zero
        /\ Count(Total) = Zero
        /\ \A q \in Quantiles : Quantile(Bins, Total, q) = NotFound

\* Mean() called on the histogram as constructed
C12_Witness ==
    /\ xs = <<>>
    /\ Bins = <<>>
    /\ ret.op = "Mean"
    /\ ret.val = Zero

\* C13: on a histogram that holds a bin, Quantile(q) for q outside [0,1]
\* returns the not-found value -1
C13_OutOfRangeQuantileNotFound ==
    (ret.op = "Quantile" /\ xs # <<>> /\ ~InUnit(ret.arg)) => ret.val = NotFound

\* C14: when Quantile(q), q in [0,1], returns the Value of a bin, that Value
\* is not the -1 it returns when no bin is found
C14_SentinelIsNoBinValue ==
    (ret.op = "Quantile" /\ InUnit(ret.arg) /\ ret.idx >= 1) => ret.val # NotFound

BadParams == Maxbins <= 0 \/ ~RLt(Zero, Alpha) \/ ~RLe(Alpha, One)

\* C15: a histogram constructed with Maxbins <= 0 or Alpha outside (0,1] is
\* never one Add is called on
C15_BadParamsNeverAdded == BadParams => xs = <<>>

\* C16: Quantile, CDF, Mean, Variance and Count leave Bins, Total, Maxbins and
\* Alpha as they were
C16_QueriesChangeNothing ==
    [][ret'.op # "none" => UNCHANGED <<Bins, Total, Maxbins, Alpha>>]_vars

\* Variance() called on bins that a merge left, which are still what trim left
C16_Witness ==
    /\ ret.op = "Variance"
    /\ Merged
    /\ Len(Bins) >= 2
    /\ RLt(Zero, ret.val)
    /\ Bins = trimLoop(last.pre, Maxbins)
    /\ Total = trimTotal(last.pre)

Gap(bins, i) == RSub(bins[i].Value, bins[i - 1].Value)

\* (k-1, k) is the first of the adjacent pairs of bins with the least gap
FirstMinGap(bins, k) ==
    /\ k \in 2..Len(bins)
    /\ \A j \in 2..Len(bins) :
          /\ RLe(Gap(bins, k), Gap(bins, j))
          /\ j < k => RLt(Gap(bins, k), Gap(bins, j))

\* post is pre with the bins k-1 and k replaced by one bin, the others as
\* they were and in their order
ReplacedPairAt(pre, post, k) ==
    /\ Len(post) = Len(pre) - 1
    /\ \A i \in 1..(k - 2) : post[i] = pre[i]
    /\ \A i \in k..Len(post) : post[i] = pre[i + 1]

\* C17: the pair a merge replaces is the adjacent pair with the least gap of
\* Values, the one of lowest index when several have it
C17_MergesFirstClosestPair ==
    Merged =>
        \E k \in 2..Len(last.pre) :
            /\ FirstMinGap(last.pre, k)
            /\ ReplacedPairAt(last.pre, Bins, k)
            /\ Bins[k - 1].Count = RAdd(last.pre[k - 1].Count, last.pre[k].Count)

\* three bins with equal gaps: the first pair was merged, the third bin kept
C17_Witness ==
    /\ Merged
    /\ Len(last.pre) = 3
    /\ Gap(last.pre, 2) = Gap(last.pre, 3)
    /\ Bins[2] = last.pre[3]
    /\ Bins[1].Count = RAdd(last.pre[1].Count, last.pre[2].Count)

\* C18: a merge of (v1,w1) and (v2,w2) puts in their place one bin of Count
\* w1+w2 and Value (v1*w1 + v2*w2)/(w1+w2), and keeps every other bin
C18_MergeIsWeightedAverage ==
    Merged =>
        \E k \in 2..Len(last.pre) :
            LET a == last.pre[k - 1]
                b == last.pre[k]
            IN  /\ ReplacedPairAt(last.pre, Bins, k)
                /\ Bins[k - 1].Count = RAdd(a.Count, b.Count)
                /\ RMul(Bins[k - 1].Value, RAdd(a.Count, b.Count))
                      = RAdd(RMul(a.Value, a.Count), RMul(b.Value, b.Count))

\* the second pair of three bins, of unequal Counts, was merged
C18_Witness ==
    /\ Merged
    /\ Len(last.pre) = 3
    /\ Bins[1] = last.pre[1]
    /\ last.pre[2].Count # last.pre[3].Count
    /\ Bins[2].Count = RAdd(last.pre[2].Count, last.pre[3].Count)

\* the sum of Value * Count over the bins
RECURSIVE RefValueCountSum(_)
RefValueCountSum(bins) ==
    IF bins = <<>> THEN Zero
    ELSE RAdd(RMul(Head(bins).Value, Head(bins).Count), RefValueCountSum(Tail(bins)))

\* the weighted average of the Values of the bins
RefWeightedMean(bins) == RDiv(RefValueCountSum(bins), SumCounts(bins))

\* C19: after an Add, Count() is the sum of the Counts and Mean() the weighted
\* average of the Values of the bins as they were before trim's merges
C19_MergeKeepsMeanAndCount ==
    Added =>
        /\ Count(Total) = SumCounts(last.pre)
        /\ Mean(Bins, Total) = RefWeightedMean(last.pre)
        /\ ret.op = "Count" => ret.val = SumCounts(last.pre)
        /\ ret.op = "Mean" => ret.val = RefWeightedMean(last.pre)

\* Mean() called after an Add that scaled bins down and merged two
C19_Witness ==
    /\ ret.op = "Mean"
    /\ Merged
    /\ RLt(Alpha, One)
    /\ Len(Bins) >= 2
    /\ ret.val.d > 1

====
